---- MODULE Spec2Model ----
(***************************************************************************)
(* NeptuneDownloader (src/exphub/download/neptune_downloader.py).          *)
(*                                                                         *)
(* The constructor and download are one action each.  download_series is   *)
(* cut at its remote calls: one action for the validation and the run      *)
(* table query, one per run handle opened, one per series value fetch.     *)
(* The local code that follows a remote call (the end of the loop, the     *)
(* check of the missing count, the assembly of the table, the join) is     *)
(* part of the action of that remote call.                                 *)
(*                                                                         *)
(* The remote service is the environment: every remote call either         *)
(* succeeds or raises, chosen with \E.  A run id is an integer 1..n, a     *)
(* series value is known by its number of rows (fetch_values returns a     *)
(* frame indexed 0..len-1), a table by its number of rows and the ordered  *)
(* labels of its columns.  A label '{series}_{runId}' is the pair          *)
(* [series, run]: the formatting is injective on run ids without '_'.      *)
(***************************************************************************)
EXTENDS Integers, Sequences, FiniteSets, TLC

\* ---- bounds of the model ----
MaxRuns == 3
MaxLen == 2

\* ---- input and environment values ----
None == "None"
Unset == "<unset>"
\* the variable as the process finds it, and the api_token arguments
EnvAtStart == {Unset, "token-of-env"}
TokenArgs == {None, "token-of-arg"}
ProjectName == "workspace/project"
\* a selector is null, a string or a list; only 'is None' is tested
SelVals == {None, "str"}
ColumnVals == {None, "list"}
Selectors == [id : SelVals, state : SelVals, owner : SelVals, tag : SelVals]
\* series_column: a name, or a list of names (empty, one name, two different
\* names, the same name twice); the code treats all names alike
SeriesColumns ==
    {[kind |-> "str", names |-> <<"loss">>],
     [kind |-> "list", names |-> <<>>],
     [kind |-> "list", names |-> <<"loss">>],
     [kind |-> "list", names |-> <<"loss", "acc">>],
     [kind |-> "list", names |-> <<"loss", "loss">>]}

\* Exceptions the remote layer can raise.
MissingField == "MissingFieldException"
ConnectionLost == "NeptuneConnectionLostException"
TransportError == "requests.ConnectionError"
RemoteErrors == {ConnectionLost, TransportError}
FetchErrors == {MissingField, ConnectionLost, TransportError}

\* neptune.exceptions.NeptuneException is the base class of the client's own
\* exceptions; a transport error of the HTTP library is not one of them.
IsNeptuneException(e) == e \in {MissingField, ConnectionLost}

Exc(t, m, a) == [type |-> t, msg |-> m, arg |-> a]
NoExc == Exc("none", "", "")
TokenError == Exc("ValueError", "Environment variable NEPTUNE_API_TOKEN not found.", "")
SelectorError == Exc("ValueError", "At least one of id, state, owner, or tag must be provided.", "")
NoRunsHave(col_label) == Exc("ValueError", "No runs have a column named", col_label)
OverlapError == Exc("ValueError", "columns overlap but no suffix specified", "")
IndexError == Exc("IndexError", "list index out of range", "")
RemoteExc(e) == Exc(e, "", "")

\* Values a call can hand back.
Frame(rows, cols) == [kind |-> "DataFrame", rows |-> rows, cols |-> cols]
NoResult == [kind |-> "no result", rows |-> 0, cols |-> <<>>]
PyNone == [kind |-> "None", rows |-> 0, cols |-> <<>>]
EmptyFrame == Frame(0, <<>>)

NoProject == [name |-> "", mode |-> "", api_token |-> Unset]
Sel(id, state, owner, tag) == [id |-> id, state |-> state, owner |-> owner, tag |-> tag]
NoSel == Sel("-", "-", "-", "-")
NoSeries == [kind |-> "-", names |-> <<>>]

\* One remote call, as it is issued.
Call(o, run, col, columns, token) ==
    [op |-> o, run |-> run, col |-> col, columns |-> columns, token |-> token]
InitProjectCall(token) == Call("init_project", 0, "", "", token)
RunsTableCall(columns) == Call("fetch_runs_table", 0, "", columns, "")
InitRunCall(run, token) == Call("init_run", run, "", "", token)
FetchValuesCall(run, col) == Call("fetch_values", run, col, "", "")

VARIABLES
    env,            \* os.environ['NEPTUNE_API_TOKEN'], or Unset
    api_token,      \* self.api_token of the downloader constructed last (None and
    project,        \* NoProject when that construction raised: no object), self.project
    token_arg,      \* api_token of __init__
    pc,             \* "idle", "init_run", "fetch", "done" (returned or raised)
    op,             \* the operation last started
    sel,            \* id, state, owner, tag of the call; nothing reads them after
                    \* line 79 (the loop of line 96 rebinds id), so a call that
                    \* goes on to open handles holds NoSel
    columns,        \* columns of download
    series_column,  \* series_column of download_series
    ids,            \* ids  (line 78)
    runs,           \* runs (line 82), the ids whose handle is open
    si,             \* position in series_column of the series being fetched
    ri,             \* position in zip(ids, runs) of the next fetch
    id2value,       \* id2value (line 94): <<[id, len]>> in insertion order
    missing,        \* missing (line 95)
    dfs,            \* dfs (line 116), the tables of the series finished so far
    df,             \* df (lines 117-119)
    exc,            \* the exception the operation raised, or NoExc
    result,         \* what the operation returned
    warnings,       \* the '[WARNING]' lines printed, in order
    log,            \* the remote calls of the operation, in order
    lastRemote,     \* how the last remote call ended: "none", "ok" or the exception
    present,        \* runs on which the current series was fetched with values
    nAbsent         \* fetches of the current series that ended in MissingField

ctorVars == <<env, api_token, project>>
vars == <<env, api_token, project, token_arg, pc, op, sel, columns, series_column, ids, runs,
          si, ri, id2value, missing, dfs, df, exc, result, warnings, log,
          lastRemote, present, nAbsent>>


\* ---- pure parts of the code ----

\* the test with its last operand negated
AllSelectorsNone_TagGiven(id, state, owner, tag) ==
    id = None /\ state = None /\ owner = None /\ tag # None

\* lines 52 and 75: all([id is None, state is None, owner is None, tag is None])
AllSelectorsNone(id, state, owner, tag) ==
    id = None /\ state = None /\ owner = None /\ tag = None

\* os.environ.get in place of the membership test: nothing is ever missing
TokenMissing_Get(token, e) == FALSE

\* lines 25-26: no argument and the variable is not in os.environ
TokenMissing(token, e) == token = None /\ e = Unset

\* lines 28 and 30: the token the object keeps
ResolveToken(token, e) == IF token = None THEN e ELSE token

\* line 31 left out
EnvAfter_NoWrite(token, e) == e

\* line 31: the environment variable after the credential is resolved
EnvAfter(token, e) == IF token = None THEN e ELSE token

\* line 79: the only column the series fetcher asks the run table for
QueryColumns == "sys/id"

\* line 112: isinstance(series_column, str) or len(series_column) == 1
IsSingle(sc) == sc.kind = "str" \/ Len(sc.names) = 1

\* handles opened lazily: the fetches start once one handle is open
RunsReady_First(r, i) == Len(r) >= 1

\* lines 82-85: the list of handles is complete before _fetch_values is defined
RunsReady(r, i) == Len(r) = Len(i)

\* line 99: the except clause
Caught(e) == IsNeptuneException(e)

\* the test of line 102 off by one: it never fires
AllMissing_Never(m, n) == m > n

\* the test of line 102 guarded against an empty run set
AllMissing_SomeRun(m, n) == m = n /\ n > 0

\* line 102: missing == len(ids)
AllMissing(m, n) == m = n

\* the label without the run id
Label_NoRun(col_label, id) == [series |-> col_label, run |-> 0]

\* line 108: f'{col_label}_{id}'
Label(col_label, id) == [series |-> col_label, run |-> id]

HasColumn(cols, lab) == \E k \in 1..Len(cols) : cols[k] = lab

\* line 108: df[label] = value['value'].  A frame without rows takes the
\* index of the value; otherwise the value is aligned to the frame's index.
\* An existing label is overwritten in place.
AddColumn(t, lab, len) ==
    Frame(IF t.rows = 0 THEN len ELSE t.rows,
          IF HasColumn(t.cols, lab) THEN t.cols ELSE Append(t.cols, lab))

\* lines 105-110, over the first k entries of id2value
RECURSIVE BuildUpTo(_, _, _)
BuildUpTo(col_label, v, k) ==
    IF k = 0 THEN EmptyFrame
    ELSE AddColumn(BuildUpTo(col_label, v, k - 1), Label(col_label, v[k].id), v[k].len)

BuildTable(col_label, v) == BuildUpTo(col_label, v, Len(v))

\* line 119: DataFrame.join(d) keeps the rows of the calling frame (how='left')
JoinRows(left, right) == left.rows

\* line 119: join refuses two frames that share a column label
Overlap(left, right) == \E k \in 1..Len(right.cols) : HasColumn(left.cols, right.cols[k])

Join(left, right) == Frame(JoinRows(left, right), left.cols \o right.cols)

\* lines 117-119 over dfs[1..k]: the join stops at the first overlap
RECURSIVE FoldJoin(_, _)
FoldJoin(tables, k) ==
    IF k = 1 THEN [err |-> FALSE, df |-> tables[1]]
    ELSE LET p == FoldJoin(tables, k - 1) IN
         IF p.err THEN p
         ELSE IF Overlap(p.df, tables[k]) THEN [err |-> TRUE, df |-> p.df]
         ELSE [err |-> FALSE, df |-> Join(p.df, tables[k])]

\* lines 112-119: there is no return after the join loop
JoinReturn(joined) == PyNone

\* lines 102-119, once the loop of line 96 has ended for series i: the check of
\* the missing count, the table, and what the caller does with it.
FinishSeries(sc, n, i, v, m, tables) ==
    LET col_label == sc.names[i]
        stop(e, r, ts, j) ==
            [pc |-> "done", exc |-> e, result |-> r, si |-> i, ri |-> n + 1,
             id2value |-> v, missing |-> m, dfs |-> ts, df |-> j]
    IN  IF AllMissing(m, n) THEN stop(NoRunsHave(col_label), NoResult, tables, EmptyFrame)
        ELSE LET t == BuildTable(col_label, v) IN
             IF IsSingle(sc) THEN stop(NoExc, t, tables, EmptyFrame)
             ELSE LET ts == Append(tables, t) IN
                  IF i < Len(sc.names)
                  THEN [pc |-> "fetch", exc |-> NoExc, result |-> NoResult, si |-> i + 1,
                        ri |-> 1, id2value |-> <<>>, missing |-> 0, dfs |-> ts,
                        df |-> EmptyFrame]
                  ELSE LET j == FoldJoin(ts, Len(ts)) IN
                       IF j.err THEN stop(OverlapError, NoResult, ts, j.df)
                       ELSE stop(NoExc, JoinReturn(j.df), ts, j.df)

\* lines 87-119 entered with all n handles open: an empty list of names fails
\* at dfs[0]; with no run the loop of line 96 has no iteration.
AfterRuns(sc, n) ==
    IF ~IsSingle(sc) /\ Len(sc.names) = 0
    THEN [pc |-> "done", exc |-> IndexError, result |-> NoResult, si |-> 0, ri |-> 0,
          id2value |-> <<>>, missing |-> 0, dfs |-> <<>>, df |-> EmptyFrame]
    ELSE IF n = 0 THEN FinishSeries(sc, 0, 1, <<>>, 0, <<>>)
    ELSE [pc |-> "fetch", exc |-> NoExc, result |-> NoResult, si |-> 1, ri |-> 1,
          id2value |-> <<>>, missing |-> 0, dfs |-> <<>>, df |-> EmptyFrame]

\* How a remote call can end: with n resolved runs (the run table query), or
\* with an exception.
Ok(n) == [ok |-> TRUE, n |-> n, e |-> ""]
Fails(e) == [ok |-> FALSE, n |-> 0, e |-> e]
Ended(o) == IF o.ok THEN "ok" ELSE o.e
QueryOutcomes == {Ok(n) : n \in 0..MaxRuns} \cup {Fails(e) : e \in RemoteErrors}
HandleOutcomes == {Ok(0)} \cup {Fails(e) : e \in RemoteErrors}
FetchOutcomes == {Ok(n) : n \in 1..MaxLen} \cup {Fails(e) : e \in FetchErrors}

\* ---- the state machine ----

Init ==
    /\ env \in EnvAtStart
    /\ api_token = None
    /\ project = NoProject
    /\ token_arg = None
    /\ pc = "idle"
    /\ op = "none"
    /\ sel = NoSel
    /\ columns = None
    /\ series_column = NoSeries
    /\ ids = <<>>
    /\ runs = <<>>
    /\ si = 0
    /\ ri = 0
    /\ id2value = <<>>
    /\ missing = 0
    /\ dfs = <<>>
    /\ df = EmptyFrame
    /\ exc = NoExc
    /\ result = NoResult
    /\ warnings = <<>>
    /\ log = <<>>
    /\ lastRemote = "none"
    /\ present = {}
    /\ nAbsent = 0

FreshLoop ==
    /\ ids' = <<>>
    /\ runs' = <<>>
    /\ si' = 0
    /\ ri' = 0
    /\ id2value' = <<>>
    /\ missing' = 0
    /\ dfs' = <<>>
    /\ df' = EmptyFrame

\* the step leaves the call at nx (a record of AfterRuns or FinishSeries)
Goto(nx) ==
    /\ pc' = nx.pc /\ exc' = nx.exc /\ result' = nx.result
    /\ si' = nx.si /\ ri' = nx.ri /\ id2value' = nx.id2value
    /\ missing' = nx.missing /\ dfs' = nx.dfs /\ df' = nx.df

\* an exception of the remote layer leaves the call
Propagate(e) ==
    /\ pc' = "done" /\ exc' = RemoteExc(e) /\ result' = NoResult
    /\ UNCHANGED <<si, ri, id2value, missing>>

\* __init__, lines 23-32
Construct(token, o) ==
    /\ pc = "idle"
    /\ op' = "__init__"
    /\ token_arg' = token
    /\ pc' = "done"
    /\ sel' = NoSel
    /\ columns' = None
    /\ series_column' = NoSeries
    /\ FreshLoop
    /\ warnings' = <<>>
    /\ present' = {}
    /\ nAbsent' = 0
    /\ result' = NoResult
    /\ IF TokenMissing(token, env)
       THEN /\ exc' = TokenError
            /\ log' = <<>>
            /\ lastRemote' = "none"
            /\ api_token' = None
            /\ project' = NoProject
            /\ UNCHANGED env
       ELSE LET t == ResolveToken(token, env) IN
            /\ env' = EnvAfter(token, env)
            /\ log' = <<InitProjectCall(t)>>
            /\ lastRemote' = Ended(o)
            /\ IF o.ok
               THEN /\ api_token' = t
                    /\ project' = [name |-> ProjectName, mode |-> "read-only", api_token |-> t]
                    /\ exc' = NoExc
               ELSE /\ exc' = RemoteExc(o.e)
                    /\ api_token' = None
                    /\ project' = NoProject

\* download, lines 52-54
Download(s, cols, o) ==
    /\ pc = "idle"
    /\ project # NoProject
    /\ op' = "download"
    /\ token_arg' = None
    /\ pc' = "done"
    /\ sel' = s
    /\ columns' = cols
    /\ series_column' = NoSeries
    /\ FreshLoop
    /\ warnings' = <<>>
    /\ present' = {}
    /\ nAbsent' = 0
    /\ UNCHANGED ctorVars
    /\ IF AllSelectorsNone(s.id, s.state, s.owner, s.tag)
       THEN /\ exc' = SelectorError
            /\ result' = NoResult
            /\ log' = <<>>
            /\ lastRemote' = "none"
       ELSE /\ log' = <<RunsTableCall(cols)>>
            /\ lastRemote' = Ended(o)
            /\ IF o.ok
               THEN exc' = NoExc /\ result' = Frame(o.n, <<>>)
               ELSE exc' = RemoteExc(o.e) /\ result' = NoResult

\* download_series, lines 75-79 (and what follows when no run is resolved)
DownloadSeries(sc, s, o) ==
    /\ pc = "idle"
    /\ project # NoProject
    /\ op' = "download_series"
    /\ token_arg' = None
    /\ columns' = None
    /\ series_column' = sc
    /\ warnings' = <<>>
    /\ present' = {}
    /\ nAbsent' = 0
    /\ UNCHANGED ctorVars
    /\ IF AllSelectorsNone(s.id, s.state, s.owner, s.tag)
       THEN /\ sel' = s
            /\ exc' = SelectorError
            /\ result' = NoResult
            /\ log' = <<>>
            /\ lastRemote' = "none"
            /\ pc' = "done"
            /\ FreshLoop
       ELSE /\ log' = <<RunsTableCall(QueryColumns)>>
            /\ lastRemote' = Ended(o)
            /\ IF ~o.ok
               THEN /\ pc' = "done" /\ exc' = RemoteExc(o.e) /\ result' = NoResult
                    /\ sel' = s
                    /\ FreshLoop
               ELSE \E nx \in {IF o.n = 0 THEN AfterRuns(sc, 0)
                                 ELSE [AfterRuns(sc, o.n) EXCEPT !.pc = "init_run",
                                          !.exc = NoExc, !.si = 0, !.ri = 0]} :
                        /\ Goto(nx)
                        /\ sel' = IF nx.pc = "done" THEN s ELSE NoSel
                        /\ runs' = <<>>
                        /\ ids' = [k \in 1..o.n |-> k]

\* one element of the comprehension of lines 82-85
InitRun(o) ==
    /\ pc = "init_run"
    /\ LET run_id == ids[Len(runs) + 1] IN
       /\ log' = Append(log, InitRunCall(run_id, api_token))
       /\ lastRemote' = Ended(o)
       /\ IF ~o.ok
          THEN /\ Propagate(o.e)
               /\ UNCHANGED <<runs, dfs, df>>
          ELSE LET rs == Append(runs, run_id) IN
               IF RunsReady(rs, ids)
               THEN /\ \E nx \in {AfterRuns(series_column, Len(ids))} : Goto(nx)
                    /\ runs' = rs
               ELSE /\ runs' = rs
                    /\ UNCHANGED <<pc, exc, result, si, ri, id2value, missing, dfs, df>>
    /\ UNCHANGED <<ctorVars, token_arg, op, sel, columns, series_column, ids, warnings,
                   present, nAbsent>>

\* one iteration of the loop of lines 96-101 (and lines 102-119 after the last)
FetchValues(o) ==
    /\ pc = "fetch"
    /\ ri <= Len(runs)
    /\ LET col_label == series_column.names[si]
           id == ids[ri]
           n == Len(ids)
       IN
       /\ log' = Append(log, FetchValuesCall(runs[ri], col_label))
       /\ lastRemote' = Ended(o)
       /\ IF ~o.ok /\ ~Caught(o.e)
          THEN /\ Propagate(o.e)
               /\ UNCHANGED <<dfs, df, warnings, present, nAbsent>>
          ELSE LET v == IF o.ok THEN Append(id2value, [id |-> id, len |-> o.n])
                        ELSE id2value
                   m == IF o.ok THEN missing ELSE missing + 1
               IN  \E nx \in {IF ri < n
                               THEN [pc |-> "fetch", exc |-> NoExc, result |-> NoResult,
                                     si |-> si, ri |-> ri + 1, id2value |-> v,
                                     missing |-> m, dfs |-> dfs, df |-> df]
                               ELSE FinishSeries(series_column, n, si, v, m, dfs)} :
                   /\ warnings' = IF o.ok THEN warnings
                                  ELSE Append(warnings, [run |-> id, col |-> col_label])
                   /\ present' = IF nx.pc = "fetch" /\ nx.si # si THEN {}
                                 ELSE IF o.ok THEN present \cup {id} ELSE present
                   /\ nAbsent' = IF nx.pc = "fetch" /\ nx.si # si THEN 0
                                 ELSE IF ~o.ok /\ o.e = MissingField THEN nAbsent + 1
                                 ELSE nAbsent
                   /\ Goto(nx)
    /\ UNCHANGED <<ctorVars, token_arg, op, sel, columns, series_column, ids, runs>>

\* the operation has returned or raised: its caller has the outcome, its frame
\* is gone, and the next operation can start
Return ==
    /\ pc = "done"
    /\ pc' = "idle"
    /\ op' = "none"
    /\ token_arg' = None
    /\ sel' = NoSel
    /\ columns' = None
    /\ series_column' = NoSeries
    /\ FreshLoop
    /\ exc' = NoExc
    /\ result' = NoResult
    /\ warnings' = <<>>
    /\ log' = <<>>
    /\ lastRemote' = "none"
    /\ present' = {}
    /\ nAbsent' = 0
    /\ UNCHANGED ctorVars

Next ==
    \/ \E token \in TokenArgs, o \in HandleOutcomes : Construct(token, o)
    \/ \E s \in Selectors, cols \in ColumnVals, o \in QueryOutcomes : Download(s, cols, o)
    \/ \E sc \in SeriesColumns, s \in Selectors, o \in QueryOutcomes :
          DownloadSeries(sc, s, o)
    \/ \E o \in HandleOutcomes : InitRun(o)
    \/ \E o \in FetchOutcomes : FetchValues(o)
    \/ Return

Spec == Init /\ [][Next]_vars


\* ---- what the claims are stated in ----

InSeries == op = "download_series"
Names == series_column.names
NoSelector == [id |-> None, state |-> None, owner |-> None, tag |-> None]
OneName == series_column.kind = "str" \/ Len(Names) = 1
DistinctNames == \A a, b \in 1..Len(Names) : a # b => Names[a] # Names[b]
ColSet(t) == {t.cols[k] : k \in 1..Len(t.cols)}
IsFrame(t) == t.kind = "DataFrame"
Fetches == {k \in 1..Len(log) : log[k].op = "fetch_values"}

\* The remote calls of a download_series call in the order the claim gives
\* them: the query, the n handles in resolution order, then series by series
\* and run by run.  Position k of that order:
Expected(k, n) ==
    IF k = 1 THEN [op |-> "fetch_runs_table", run |-> 0, col |-> "", columns |-> "sys/id",
                   token |-> ""]
    ELSE IF k <= 1 + n
    THEN [op |-> "init_run", run |-> ids[k - 1], col |-> "", columns |-> "", token |-> api_token]
    ELSE [op |-> "fetch_values", run |-> ids[((k - 2 - n) % n) + 1],
          col |-> Names[((k - 2 - n) \div n) + 1], columns |-> "", token |-> ""]

InOrder ==
    /\ Len(log) <= 1 + Len(ids) + Len(ids) * Len(Names)
    /\ \A k \in 1..Len(log) : log[k] = Expected(k, Len(ids))
    /\ (pc = "fetch" \/ Fetches # {}) => Len(runs) = Len(ids)
    /\ (pc = "done" /\ exc = NoExc) => Len(log) = 1 + Len(ids) + Len(ids) * Len(Names)

\* ---- C1 ----
\* C1: a download or download_series call whose id, state, owner and tag are
\* all null ends in the validation error and has made no remote call, whatever
\* columns or series_column are.
C1_NullSelectorsRejected ==
    (pc = "done" /\ op \in {"download", "download_series"} /\ sel = NoSelector)
    => (exc = SelectorError /\ result = NoResult /\ log = <<>> /\ runs = <<>>
        /\ lastRemote = "none")

C1_Witness ==
    /\ pc = "done" /\ op = "download_series" /\ sel = NoSelector
    /\ Names = <<"loss", "acc">>
    /\ exc = SelectorError /\ log = <<>>

\* ---- C2 ----
\* C2: a construction with no token argument while the environment variable is
\* not set raises the configuration error, calls init_project never, and
\* leaves the variable unset.
C2_NoCredentialRejected ==
    [][(pc = "idle" /\ op' = "__init__" /\ token_arg' = None /\ env = Unset)
       => (exc' = TokenError /\ log' = <<>> /\ env' = Unset /\ project' = NoProject)]_vars

C2_Witness ==
    /\ pc = "done" /\ op = "__init__" /\ token_arg = None
    /\ exc = TokenError /\ env = Unset /\ log = <<>>

\* ---- C3 ----
\* C3: a construction with a token argument t leaves the environment variable
\* at t whatever it held and opens the project with t; nothing else writes the
\* variable; and a construction without argument while the variable is set
\* resolves the credential from it and opens the project with it.
C3_TokenWrittenBack ==
    [][/\ (pc = "idle" /\ op' = "__init__" /\ token_arg' # None)
          => /\ env' = token_arg'
             /\ log' = <<[op |-> "init_project", run |-> 0, col |-> "", columns |-> "",
                          token |-> token_arg']>>
             /\ (exc' = NoExc => api_token' = token_arg' /\ project'.api_token = token_arg')
       /\ (env' # env) => (op' = "__init__" /\ token_arg' = env')
       /\ (pc = "idle" /\ op' = "__init__" /\ token_arg' = None /\ env # Unset)
          => /\ exc' # TokenError
             /\ env' = env
             /\ log' = <<[op |-> "init_project", run |-> 0, col |-> "", columns |-> "",
                          token |-> env]>>
             /\ (exc' = NoExc => api_token' = env)]_vars

\* a construction without argument that used the token an earlier construction wrote
C3_Witness ==
    /\ pc = "done" /\ op = "__init__" /\ token_arg = None /\ exc = NoExc
    /\ env = "token-of-arg" /\ api_token = "token-of-arg"
    /\ project.api_token = "token-of-arg"

\* ---- C4 ----
\* C4: when the series being fetched turned out absent on every run of a
\* non-empty run set, the call has ended in 'No runs have a column named' for
\* that series and has returned no table, for a single name and for any name
\* of a list.
C4_AbsentEverywhereRaises ==
    (InSeries /\ Len(ids) >= 1 /\ nAbsent = Len(ids))
    => (pc = "done" /\ exc = [type |-> "ValueError", msg |-> "No runs have a column named",
                              arg |-> Names[si]]
        /\ result = NoResult)

\* the second name of a list is the one no run has
C4_Witness ==
    /\ InSeries /\ Names = <<"loss", "acc">> /\ si = 2
    /\ Len(ids) = 3 /\ nAbsent = 3
    /\ exc.arg = "acc"

\* ---- C5 ----
\* C5: a single series present on k >= 1 of the n runs and absent on the other
\* n - k: the call returns a table with exactly the k columns '{series}_{run}'
\* of the runs that have it, and has printed n - k warnings, one per run that
\* lacks it.
C5_OneColumnPerRunWithSeries ==
    (InSeries /\ OneName /\ present # {}
        /\ Cardinality(present) + nAbsent = Len(ids))
    => /\ pc = "done" /\ exc = NoExc /\ IsFrame(result)
       /\ Len(result.cols) = Cardinality(present)
       /\ ColSet(result) = {[series |-> Names[1], run |-> r] : r \in present}
       /\ Len(warnings) = Len(ids) - Cardinality(present)
       /\ {warnings[k].run : k \in 1..Len(warnings)}
             = {ids[k] : k \in 1..Len(ids)} \ present

\* present on 2 of 3 runs
C5_Witness ==
    /\ InSeries /\ OneName /\ pc = "done"
    /\ Len(ids) = 3 /\ present = {1, 3} /\ nAbsent = 1
    /\ Len(result.cols) = 2 /\ Len(warnings) = 1

\* ---- C6 ----
\* C6: a call with two or more different names, each found on at least one run
\* (so that every per-series table was built), returns a table whose columns
\* are the union of the columns of the per-series tables.
C6_UnionReturned ==
    (pc = "done" /\ InSeries /\ Len(Names) >= 2 /\ DistinctNames /\ Len(dfs) = Len(Names))
    => /\ exc = NoExc
       /\ IsFrame(result)
       /\ ColSet(result) = UNION {ColSet(dfs[k]) : k \in 1..Len(dfs)}

\* ---- C7 ----
\* C7: in download_series a remote call that ended in anything but success or
\* 'series missing on this run' has ended the call with that very exception:
\* it is not counted as missing and not turned into a warning.
C7_OnlyMissingDowngraded ==
    (InSeries /\ lastRemote \notin {"none", "ok", MissingField})
    => (pc = "done" /\ exc = [type |-> lastRemote, msg |-> "", arg |-> ""]
        /\ result = NoResult)

\* ---- C8 ----
\* C8: the table joined from the per-series tables of a multi-name call has a
\* row for every row index of any per-series table.
C8_OuterJoin ==
    (pc = "done" /\ InSeries /\ Len(Names) >= 2 /\ DistinctNames /\ Len(dfs) = Len(Names))
    => \A k \in 1..Len(dfs) : df.rows >= dfs[k].rows

\* ---- C9 ----
\* C9 as stated: the remote calls come in the order query, handles, fetches,
\* and no (series, run) pair is fetched twice.
C9_PairFetchedOnce ==
    InSeries =>
       /\ InOrder
       /\ \A a, b \in Fetches :
             (log[a].col = log[b].col /\ log[a].run = log[b].run) => a = b

\* C9 as amended: the remote calls come in the order query (identifier column
\* only), one handle per resolved id in resolution order, and only then the
\* fetches, series by series in request order and run by run; every pair of a
\* position in the request and a run is fetched at most once, and exactly once
\* when the call returns.
C9_CallOrder == InSeries => InOrder

C9_Witness ==
    /\ InSeries /\ pc = "done" /\ exc = NoExc
    /\ Names = <<"loss", "acc">> /\ Len(ids) = 3
    /\ Len(log) = 10

\* ---- C10 ----
\* C10: when the query succeeds with no run id and a series was requested, the
\* call has ended in 'No runs have a column named' for the first requested
\* series, after the query alone: no handle, no fetch, no warning, no table.
C10_EmptyRunSetRaises ==
    (InSeries /\ log # <<>> /\ ids = <<>> /\ Names # <<>>
        /\ ~(Len(log) = 1 /\ lastRemote \in RemoteErrors))
    => /\ pc = "done"
       /\ exc = [type |-> "ValueError", msg |-> "No runs have a column named",
                 arg |-> Names[1]]
       /\ result = NoResult /\ warnings = <<>> /\ runs = <<>> /\ Len(log) = 1

C10_Witness ==
    /\ InSeries /\ pc = "done" /\ ids = <<>> /\ lastRemote = "ok"
    /\ Names = <<"loss", "acc">> /\ sel.tag # None
    /\ exc.arg = "loss" /\ Len(log) = 1

====
